---- MODULE Spec2Model ----
(***************************************************************************)
(* CreatorDB proxy: the MCP tool shell (index.ts, embedded in README.md)   *)
(* and the two Express shells found in server.ts (lines 1-463 and          *)
(* 465-1047).  One process runs one shell; it handles one call at a time   *)
(* in this specification: receive, send the outbound request, let the      *)
(* upstream settle, resume, reply.  A second specification, SanitizeSpec,  *)
(* applies sanitizeId to identifiers drawn from a bounded set of strings.  *)
(***************************************************************************)
EXTENDS Integers, Sequences, FiniteSets, TLC

VARIABLES shell, API_KEY, pc, call, outbound, settled, reply, served,
          input, sanitized, first, inflight

\* the state of a process that serves calls
callVars == <<shell, API_KEY, pc, call, outbound, settled, reply, served>>

\* the argument and the outcome of one application of sanitizeId
sanitizeVars == <<input, sanitized>>

\* the record of an earlier call, kept to compare a later one with it; the
\* calls a process has in flight at once
pairVars == <<first, inflight>>

vars ==
  <<shell, API_KEY, pc, call, outbound, settled, reply, served, input, sanitized,
    first, inflight>>

(***************************************************************************)
(* JavaScript values.  A value is a sequence of tokens whose first token   *)
(* is its type; a string is the tag "str" followed by its text, cut into   *)
(* tokens (the characters that matter to a URL are tokens of their own).   *)
(***************************************************************************)
Undefined == <<"undefined">>
Null == <<"null">>
True == <<"bool", "true">>
False == <<"bool", "false">>
Str(text) == <<"str">> \o text
Num(n) == <<"num", ToString(n)>>
Arr(items) == <<"arr">> \o items

\* ToBoolean: what `if (v)`, `!v` and `v || d` test
Truthy(v) ==
  CASE v[1] \in {"undefined", "null"} -> FALSE
    [] v[1] = "str" -> Len(v) > 1
    [] v[1] = "num" -> v[2] # "0"
    [] v[1] = "bool" -> v[2] = "true"
    [] OTHER -> TRUE

RECURSIVE Join(_)
\* Array.prototype.join(","), the text of an array in a template literal
Join(items) ==
  IF items = <<>> THEN <<>>
  ELSE IF Len(items) = 1 THEN <<items[1]>>
  ELSE <<items[1], ",">> \o Join(Tail(items))

\* String(v) and `${v}`: the text of a value
ToText(v) ==
  CASE v[1] = "undefined" -> <<"undefined">>
    [] v[1] = "null" -> <<"null">>
    [] v[1] = "str" -> Tail(v)
    [] v[1] = "arr" -> Join(Tail(v))
    [] OTHER -> <<v[2]>>

\* a || b
OrElse(a, b) == IF Truthy(a) THEN a ELSE b

(***************************************************************************)
(* JavaScript objects and JSON.  An object is the sequence of its members  *)
(* in insertion order, a member being the key followed by the value.       *)
(***************************************************************************)
Member(key, v) == <<key>> \o v
KeyOf(m) == m[1]
ValueOf(m) == Tail(m)

Has(obj, key) == \E i \in 1..Len(obj) : KeyOf(obj[i]) = key

\* obj.key : undefined when the object has no such member
Get(obj, key) ==
  IF Has(obj, key)
  THEN ValueOf(obj[CHOOSE i \in 1..Len(obj) : KeyOf(obj[i]) = key])
  ELSE Undefined

IsDefinedMember(m) == ValueOf(m) # Undefined

\* JSON.stringify of an object: members whose value is undefined are left out
JSONstringify(obj) == SelectSeq(obj, IsDefinedMember)

(***************************************************************************)
(* Encoders                                                                *)
(***************************************************************************)
\* encodeURIComponent, one token at a time: reserved characters are escaped,
\* unreserved text is kept
encodeURIComponentChar(t) ==
  CASE t = "@" -> "%40"
    [] t = "&" -> "%26"
    [] t = "=" -> "%3D"
    [] t = "#" -> "%23"
    [] t = "?" -> "%3F"
    [] t = " " -> "%20"
    [] t = "%" -> "%25"
    [] t = "+" -> "%2B"
    [] t = "/" -> "%2F"
    [] t = "," -> "%2C"
    [] OTHER -> t

encodeURIComponent(text) == [i \in 1..Len(text) |-> encodeURIComponentChar(text[i])]

\* a UTF-16 surrogate code unit that is not half of a pair
LoneSurrogate == "U+D800"

\* encodeURIComponent throws URIError("URI malformed") when its argument
\* holds a lone surrogate, and returns the escaped string otherwise
encodeURIComponentThrows(text) == \E i \in 1..Len(text) : text[i] = LoneSurrogate

\* id.replace(/^@/, "")
StripLeadingAt(text) == IF text # <<>> /\ text[1] = "@" THEN Tail(text) ELSE text

RECURSIVE StripEveryLeadingAt(_)
\* id.replace(/^@+/, "")
StripEveryLeadingAt(text) ==
  IF text # <<>> /\ text[1] = "@" THEN StripEveryLeadingAt(Tail(text)) ELSE text

\* sanitizeId with every leading "@" stripped instead of one
sanitizeIdStripsEvery(id) == encodeURIComponent(StripEveryLeadingAt(id))

\* the string sanitizeId returns, when it returns
sanitizeId(id) == encodeURIComponent(StripLeadingAt(id))

\* whether the call of encodeURIComponent inside sanitizeId throws
sanitizeIdThrows(id) == encodeURIComponentThrows(StripLeadingAt(id))

\* the application/x-www-form-urlencoded serializer of URLSearchParams
FormEncodeChar(t) == IF t = " " THEN "+" ELSE encodeURIComponentChar(t)

FormEncode(text) == [i \in 1..Len(text) |-> FormEncodeChar(text[i])]

RECURSIVE URLSearchParamsToString(_)
\* params.toString(): name=value pairs joined by "&"; a pair is <<name>> \o value
URLSearchParamsToString(params) ==
  IF params = <<>> THEN <<>>
  ELSE LET p == params[1]
           one == <<KeyOf(p), "=">> \o FormEncode(ValueOf(p))
       IN IF Len(params) = 1 THEN one
          ELSE one \o <<"&">> \o URLSearchParamsToString(Tail(params))

\* the /usage endpoint of all three shells
UsageEndpoint(args) ==
  LET p1 == IF Truthy(args.start) THEN <<Member("start", ToText(args.start))>> ELSE <<>>
      p2 == IF Truthy(args.end) THEN <<Member("end", ToText(args.end))>> ELSE <<>>
      queryString == URLSearchParamsToString(p1 \o p2)
  IN <<"/usage">> \o (IF queryString # <<>> THEN <<"?">> \o queryString ELSE <<>>)

(***************************************************************************)
(* Errors and the upstream client                                          *)
(***************************************************************************)
API_BASE_URL == "https://apiv3.creatordb.app"

\* new Error(message): the message is String(message)
Error(message) == [class |-> "Error", message |-> Str(ToText(message)), status |-> 0]

\* class ApiError extends Error
ApiError(message, status) ==
  [class |-> "ApiError", message |-> Str(ToText(message)), status |-> status]

\* what fetch() and response.json() reject with, and what reading a
\* property of null throws
TypeError(message) == [class |-> "TypeError", message |-> message, status |-> 0]
SyntaxError(message) == [class |-> "SyntaxError", message |-> message, status |-> 0]

\* what encodeURIComponent throws
URIError(message) == [class |-> "URIError", message |-> message, status |-> 0]

NoError == [class |-> "none", message |-> Undefined, status |-> 0]

NoBody == [given |-> FALSE, obj |-> <<>>]
Body(obj) == [given |-> TRUE, obj |-> obj]

NoRequest ==
  [url |-> <<>>, method |-> "none", contentType |-> "", apiKey |-> Undefined,
   hasBody |-> FALSE, body |-> <<>>]

\* makeApiRequestSend without the api-key header
makeApiRequestSendNoKeyHeader(endpoint, method, body) ==
  IF shell = "http2" /\ ~Truthy(API_KEY)
  THEN [throws |-> TRUE,
        error |-> ApiError(Str(<<"CREATORDB_API_KEY environment variable is required">>), 500),
        request |-> NoRequest]
  ELSE [throws |-> FALSE, error |-> NoError,
        request |-> [url |-> <<API_BASE_URL>> \o endpoint,
                     method |-> method,
                     contentType |-> "application/json",
                     apiKey |-> Undefined,
                     hasBody |-> body.given /\ method = "POST",
                     body |-> IF body.given /\ method = "POST"
                              THEN JSONstringify(body.obj) ELSE <<>>]]

\* makeApiRequest up to `await fetch(url, options)`: either throws or calls fetch
makeApiRequestSend(endpoint, method, body) ==
  IF shell = "http2" /\ ~Truthy(API_KEY)
  THEN [throws |-> TRUE,
        error |-> ApiError(Str(<<"CREATORDB_API_KEY environment variable is required">>), 500),
        request |-> NoRequest]
  ELSE [throws |-> FALSE, error |-> NoError,
        request |-> [url |-> <<API_BASE_URL>> \o endpoint,
                     method |-> method,
                     contentType |-> "application/json",
                     apiKey |-> API_KEY,
                     hasBody |-> body.given /\ method = "POST",
                     body |-> IF body.given /\ method = "POST"
                              THEN JSONstringify(body.obj) ELSE <<>>]]

\* response.ok
ResponseOk(status) == status >= 200 /\ status <= 299

\* IsFailure with `!data.success` in place of `data.success === false`
IsFailureNotTruthy(status, data) == ~ResponseOk(status) \/ ~Truthy(Get(data, "success"))

\* !response.ok || data.success === false
IsFailure(status, data) == ~ResponseOk(status) \/ Get(data, "success") = False

\* ErrorText with the two fields of the body in the other order
ErrorTextMessageFirst(status, data) ==
  OrElse(OrElse(Get(data, "message"), Get(data, "errorDescription")),
         Str(<<"API Error: ", ToString(status)>>))

\* data.errorDescription || data.message || `API Error: ${response.status}`
ErrorText(status, data) ==
  OrElse(OrElse(Get(data, "errorDescription"), Get(data, "message")),
         Str(<<"API Error: ", ToString(status)>>))

\* the error makeApiRequest throws for a failure the upstream reported
UpstreamError(status, data) ==
  IF shell = "http2" THEN ApiError(ErrorText(status, data), status)
  ELSE Error(ErrorText(status, data))

\* makeApiRequestReceive with the status tested before the body is decoded
makeApiRequestReceiveStatusFirst(s) ==
  IF s.kind = "reject"
  THEN [throws |-> TRUE, error |-> TypeError(s.cause), data |-> <<>>]
  ELSE IF ~ResponseOk(s.status)
  THEN [throws |-> TRUE, error |-> UpstreamError(s.status, <<>>), data |-> <<>>]
  ELSE IF s.decode = "syntaxError"
  THEN [throws |-> TRUE, error |-> SyntaxError(s.cause), data |-> <<>>]
  ELSE IF s.decode = "null"
  THEN [throws |-> TRUE,
        error |-> TypeError(Str(<<"Cannot read properties of null">>)), data |-> <<>>]
  ELSE IF IsFailure(s.status, s.data)
  THEN [throws |-> TRUE, error |-> UpstreamError(s.status, s.data), data |-> <<>>]
  ELSE [throws |-> FALSE, error |-> NoError, data |-> s.data]

\* makeApiRequest from the point fetch settles: s is what fetch and
\* response.json() came to.  A rejection is rethrown as it is; a body that
\* decodes to null makes the read of data.success or data.errorDescription throw
makeApiRequestReceive(s) ==
  IF s.kind = "reject"
  THEN [throws |-> TRUE, error |-> TypeError(s.cause), data |-> <<>>]
  ELSE IF s.decode = "syntaxError"
  THEN [throws |-> TRUE, error |-> SyntaxError(s.cause), data |-> <<>>]
  ELSE IF s.decode = "null"
  THEN [throws |-> TRUE,
        error |-> TypeError(Str(<<"Cannot read properties of null">>)), data |-> <<>>]
  ELSE IF IsFailure(s.status, s.data)
  THEN [throws |-> TRUE, error |-> UpstreamError(s.status, s.data), data |-> <<>>]
  ELSE [throws |-> FALSE, error |-> NoError, data |-> s.data]

(***************************************************************************)
(* The operations of each shell.  One row per `case` of handleToolCall and *)
(* per app.get/app.post registration, in source order: the name the caller *)
(* uses, the shape of the handler, the upstream path, the parameter the    *)
(* handler reads, and how the handler writes that parameter into the URL.  *)
(***************************************************************************)
Case(name, kind, path, param) ==
  [name |-> name, kind |-> kind, path |-> path, param |-> param, enc |-> "raw"]

Route(name, kind, path, param, enc) ==
  [name |-> name, kind |-> kind, path |-> path, param |-> param, enc |-> enc]

\* an entry of the tool list, by its name
Tool(name) == [name |-> name]

\* tools with the last entry carrying the name of an earlier one
toolsRepeatedName ==
  <<Tool("get_api_usage"),
    Tool("instagram_get_profile"),
    Tool("instagram_get_contact"),
    Tool("instagram_get_content_detail"),
    Tool("instagram_get_performance"),
    Tool("instagram_get_performance_history"),
    Tool("instagram_get_sponsorship"),
    Tool("instagram_get_audience"),
    Tool("instagram_search"),
    Tool("instagram_natural_language_search"),
    Tool("instagram_get_niches"),
    Tool("youtube_get_profile"),
    Tool("youtube_search"),
    Tool("youtube_get_performance"),
    Tool("youtube_get_performance_history"),
    Tool("youtube_get_content_detail"),
    Tool("youtube_get_sponsorship"),
    Tool("youtube_get_contact"),
    Tool("youtube_get_audience"),
    Tool("youtube_natural_language_search"),
    Tool("youtube_get_topics"),
    Tool("youtube_get_niches"),
    Tool("tiktok_get_profile"),
    Tool("tiktok_search"),
    Tool("tiktok_get_contact"),
    Tool("tiktok_get_performance"),
    Tool("tiktok_get_performance_history"),
    Tool("tiktok_get_content_detail"),
    Tool("tiktok_get_audience"),
    Tool("tiktok_natural_language_search"),
    Tool("instagram_get_niches")>>

\* const tools: Tool[], the list the ListTools handler returns
tools ==
  <<Tool("get_api_usage"),
    Tool("instagram_get_profile"),
    Tool("instagram_get_contact"),
    Tool("instagram_get_content_detail"),
    Tool("instagram_get_performance"),
    Tool("instagram_get_performance_history"),
    Tool("instagram_get_sponsorship"),
    Tool("instagram_get_audience"),
    Tool("instagram_search"),
    Tool("instagram_natural_language_search"),
    Tool("instagram_get_niches"),
    Tool("youtube_get_profile"),
    Tool("youtube_search"),
    Tool("youtube_get_performance"),
    Tool("youtube_get_performance_history"),
    Tool("youtube_get_content_detail"),
    Tool("youtube_get_sponsorship"),
    Tool("youtube_get_contact"),
    Tool("youtube_get_audience"),
    Tool("youtube_natural_language_search"),
    Tool("youtube_get_topics"),
    Tool("youtube_get_niches"),
    Tool("tiktok_get_profile"),
    Tool("tiktok_search"),
    Tool("tiktok_get_contact"),
    Tool("tiktok_get_performance"),
    Tool("tiktok_get_performance_history"),
    Tool("tiktok_get_content_detail"),
    Tool("tiktok_get_audience"),
    Tool("tiktok_natural_language_search"),
    Tool("tiktok_get_niches")>>

\* toolCases without the last case of the switch
toolCasesLastMissing ==
  <<Case("get_api_usage", "usage", "/usage", "none"),
    Case("instagram_get_profile", "id", "/instagram/profile", "uniqueId"),
    Case("instagram_get_contact", "id", "/instagram/contact", "uniqueId"),
    Case("instagram_get_content_detail", "id", "/instagram/content-detail", "contentId"),
    Case("instagram_get_performance", "id", "/instagram/performance", "uniqueId"),
    Case("instagram_get_performance_history", "id", "/instagram/performance-history", "uniqueId"),
    Case("instagram_get_sponsorship", "id", "/instagram/sponsorship", "uniqueId"),
    Case("instagram_get_audience", "id", "/instagram/audience", "uniqueId"),
    Case("instagram_search", "search", "/instagram/search", "filters"),
    Case("instagram_natural_language_search", "nls", "/instagram/nls", "query"),
    Case("instagram_get_niches", "list", "/instagram/niches", "none"),
    Case("youtube_get_profile", "id", "/youtube/profile", "channelId"),
    Case("youtube_search", "search", "/youtube/search", "filters"),
    Case("youtube_get_performance", "id", "/youtube/performance", "channelId"),
    Case("youtube_get_performance_history", "id", "/youtube/performance-history", "channelId"),
    Case("youtube_get_content_detail", "id", "/youtube/content-detail", "contentId"),
    Case("youtube_get_sponsorship", "id", "/youtube/sponsorship", "channelId"),
    Case("youtube_get_contact", "id", "/youtube/contact", "channelId"),
    Case("youtube_get_audience", "id", "/youtube/audience", "channelId"),
    Case("youtube_natural_language_search", "nls", "/youtube/nls", "query"),
    Case("youtube_get_topics", "list", "/youtube/topics", "none"),
    Case("youtube_get_niches", "list", "/youtube/niches", "none"),
    Case("tiktok_get_profile", "id", "/tiktok/profile", "uniqueId"),
    Case("tiktok_search", "search", "/tiktok/search", "filters"),
    Case("tiktok_get_contact", "id", "/tiktok/contact", "uniqueId"),
    Case("tiktok_get_performance", "id", "/tiktok/performance", "uniqueId"),
    Case("tiktok_get_performance_history", "id", "/tiktok/performance-history", "uniqueId"),
    Case("tiktok_get_content_detail", "id", "/tiktok/content-detail", "contentId"),
    Case("tiktok_get_audience", "id", "/tiktok/audience", "uniqueId"),
    Case("tiktok_natural_language_search", "nls", "/tiktok/nls", "query")>>

\* the switch of handleToolCall
toolCases ==
  <<Case("get_api_usage", "usage", "/usage", "none"),
    Case("instagram_get_profile", "id", "/instagram/profile", "uniqueId"),
    Case("instagram_get_contact", "id", "/instagram/contact", "uniqueId"),
    Case("instagram_get_content_detail", "id", "/instagram/content-detail", "contentId"),
    Case("instagram_get_performance", "id", "/instagram/performance", "uniqueId"),
    Case("instagram_get_performance_history", "id", "/instagram/performance-history", "uniqueId"),
    Case("instagram_get_sponsorship", "id", "/instagram/sponsorship", "uniqueId"),
    Case("instagram_get_audience", "id", "/instagram/audience", "uniqueId"),
    Case("instagram_search", "search", "/instagram/search", "filters"),
    Case("instagram_natural_language_search", "nls", "/instagram/nls", "query"),
    Case("instagram_get_niches", "list", "/instagram/niches", "none"),
    Case("youtube_get_profile", "id", "/youtube/profile", "channelId"),
    Case("youtube_search", "search", "/youtube/search", "filters"),
    Case("youtube_get_performance", "id", "/youtube/performance", "channelId"),
    Case("youtube_get_performance_history", "id", "/youtube/performance-history", "channelId"),
    Case("youtube_get_content_detail", "id", "/youtube/content-detail", "contentId"),
    Case("youtube_get_sponsorship", "id", "/youtube/sponsorship", "channelId"),
    Case("youtube_get_contact", "id", "/youtube/contact", "channelId"),
    Case("youtube_get_audience", "id", "/youtube/audience", "channelId"),
    Case("youtube_natural_language_search", "nls", "/youtube/nls", "query"),
    Case("youtube_get_topics", "list", "/youtube/topics", "none"),
    Case("youtube_get_niches", "list", "/youtube/niches", "none"),
    Case("tiktok_get_profile", "id", "/tiktok/profile", "uniqueId"),
    Case("tiktok_search", "search", "/tiktok/search", "filters"),
    Case("tiktok_get_contact", "id", "/tiktok/contact", "uniqueId"),
    Case("tiktok_get_performance", "id", "/tiktok/performance", "uniqueId"),
    Case("tiktok_get_performance_history", "id", "/tiktok/performance-history", "uniqueId"),
    Case("tiktok_get_content_detail", "id", "/tiktok/content-detail", "contentId"),
    Case("tiktok_get_audience", "id", "/tiktok/audience", "uniqueId"),
    Case("tiktok_natural_language_search", "nls", "/tiktok/nls", "query"),
    Case("tiktok_get_niches", "list", "/tiktok/niches", "none")>>

\* the routes of the first Express application
routesV1 ==
  <<Route("GET /api/usage", "usage", "/usage", "none", "raw"),
    Route("GET /api/instagram/profile", "id", "/instagram/profile", "uniqueId", "raw"),
    Route("GET /api/instagram/contact", "id", "/instagram/contact", "uniqueId", "raw"),
    Route("GET /api/instagram/content-detail", "id", "/instagram/content-detail", "contentId", "raw"),
    Route("GET /api/instagram/performance", "id", "/instagram/performance", "uniqueId", "raw"),
    Route("GET /api/instagram/performance-history", "id", "/instagram/performance-history", "uniqueId", "raw"),
    Route("GET /api/instagram/sponsorship", "id", "/instagram/sponsorship", "uniqueId", "raw"),
    Route("GET /api/instagram/audience", "id", "/instagram/audience", "uniqueId", "raw"),
    Route("POST /api/instagram/search", "search", "/instagram/search", "filters", "raw"),
    Route("POST /api/instagram/natural-language-search", "nls", "/instagram/nls", "query", "raw"),
    Route("GET /api/instagram/niches", "list", "/instagram/niches", "none", "raw"),
    Route("GET /api/youtube/profile", "id", "/youtube/profile", "channelId", "raw"),
    Route("POST /api/youtube/search", "search", "/youtube/search", "filters", "raw"),
    Route("GET /api/youtube/performance", "id", "/youtube/performance", "channelId", "raw"),
    Route("GET /api/youtube/performance-history", "id", "/youtube/performance-history", "channelId", "raw"),
    Route("GET /api/youtube/content-detail", "id", "/youtube/content-detail", "contentId", "raw"),
    Route("GET /api/youtube/sponsorship", "id", "/youtube/sponsorship", "channelId", "raw"),
    Route("GET /api/youtube/contact", "id", "/youtube/contact", "channelId", "raw"),
    Route("GET /api/youtube/audience", "id", "/youtube/audience", "channelId", "raw"),
    Route("POST /api/youtube/natural-language-search", "nls", "/youtube/nls", "query", "raw"),
    Route("GET /api/youtube/topics", "list", "/youtube/topics", "none", "raw"),
    Route("GET /api/youtube/niches", "list", "/youtube/niches", "none", "raw"),
    Route("GET /api/tiktok/profile", "id", "/tiktok/profile", "uniqueId", "raw"),
    Route("POST /api/tiktok/search", "search", "/tiktok/search", "filters", "raw"),
    Route("GET /api/tiktok/contact", "id", "/tiktok/contact", "uniqueId", "raw"),
    Route("GET /api/tiktok/performance", "id", "/tiktok/performance", "uniqueId", "raw"),
    Route("GET /api/tiktok/performance-history", "id", "/tiktok/performance-history", "uniqueId", "raw"),
    Route("GET /api/tiktok/content-detail", "id", "/tiktok/content-detail", "contentId", "raw"),
    Route("GET /api/tiktok/audience", "id", "/tiktok/audience", "uniqueId", "raw"),
    Route("POST /api/tiktok/natural-language-search", "nls", "/tiktok/nls", "query", "raw"),
    Route("GET /api/tiktok/niches", "list", "/tiktok/niches", "none", "raw")>>

\* the routes of the second Express application
routesV2 ==
  <<Route("GET /api/usage", "usage", "/usage", "none", "raw"),
    Route("GET /api/instagram/profile", "id", "/instagram/profile", "uniqueId", "sanitizeId"),
    Route("GET /api/instagram/contact", "id", "/instagram/contact", "uniqueId", "sanitizeId"),
    Route("GET /api/instagram/content-detail", "id", "/instagram/content-detail", "contentId", "encodeURIComponent"),
    Route("GET /api/instagram/performance", "id", "/instagram/performance", "uniqueId", "sanitizeId"),
    Route("GET /api/instagram/performance-history", "id", "/instagram/performance-history", "uniqueId", "sanitizeId"),
    Route("GET /api/instagram/sponsorship", "id", "/instagram/sponsorship", "uniqueId", "sanitizeId"),
    Route("GET /api/instagram/audience", "id", "/instagram/audience", "uniqueId", "sanitizeId"),
    Route("POST /api/instagram/search", "search", "/instagram/search", "filters", "raw"),
    Route("POST /api/instagram/natural-language-search", "nls", "/instagram/nls", "query", "raw"),
    Route("GET /api/instagram/niches", "list", "/instagram/niches", "none", "raw"),
    Route("GET /api/youtube/profile", "id", "/youtube/profile", "channelId", "encodeURIComponent"),
    Route("POST /api/youtube/search", "search", "/youtube/search", "filters", "raw"),
    Route("GET /api/youtube/performance", "id", "/youtube/performance", "channelId", "encodeURIComponent"),
    Route("GET /api/youtube/performance-history", "id", "/youtube/performance-history", "channelId", "encodeURIComponent"),
    Route("GET /api/youtube/content-detail", "id", "/youtube/content-detail", "contentId", "encodeURIComponent"),
    Route("GET /api/youtube/sponsorship", "id", "/youtube/sponsorship", "channelId", "encodeURIComponent"),
    Route("GET /api/youtube/contact", "id", "/youtube/contact", "channelId", "encodeURIComponent"),
    Route("GET /api/youtube/audience", "id", "/youtube/audience", "channelId", "encodeURIComponent"),
    Route("POST /api/youtube/natural-language-search", "nls", "/youtube/nls", "query", "raw"),
    Route("GET /api/youtube/topics", "list", "/youtube/topics", "none", "raw"),
    Route("GET /api/youtube/niches", "list", "/youtube/niches", "none", "raw"),
    Route("GET /api/tiktok/profile", "id", "/tiktok/profile", "uniqueId", "sanitizeId"),
    Route("POST /api/tiktok/search", "search", "/tiktok/search", "filters", "raw"),
    Route("GET /api/tiktok/contact", "id", "/tiktok/contact", "uniqueId", "sanitizeId"),
    Route("GET /api/tiktok/performance", "id", "/tiktok/performance", "uniqueId", "sanitizeId"),
    Route("GET /api/tiktok/performance-history", "id", "/tiktok/performance-history", "uniqueId", "sanitizeId"),
    Route("GET /api/tiktok/content-detail", "id", "/tiktok/content-detail", "contentId", "encodeURIComponent"),
    Route("GET /api/tiktok/audience", "id", "/tiktok/audience", "uniqueId", "sanitizeId"),
    Route("POST /api/tiktok/natural-language-search", "nls", "/tiktok/nls", "query", "raw"),
    Route("GET /api/tiktok/niches", "list", "/tiktok/niches", "none", "raw")>>

Handlers ==
  CASE shell = "mcp" -> toolCases
    [] shell = "http1" -> routesV1
    [] shell = "http2" -> routesV2

HandlerNames == {Handlers[i].name : i \in 1..Len(Handlers)}

\* the first matching case or route
HandlerOf(name) == Handlers[CHOOSE i \in 1..Len(Handlers) :
                      /\ Handlers[i].name = name
                      /\ \A j \in 1..(i - 1) : Handlers[j].name # name]

(***************************************************************************)
(* Calls.  The arguments of a call: the tool's `args`, or req.query of a   *)
(* GET route, or req.body of a POST route.  A parameter the caller did not *)
(* send reads as undefined.                                                *)
(***************************************************************************)
NoArgs ==
  [uniqueId |-> Undefined, channelId |-> Undefined, contentId |-> Undefined,
   query |-> Undefined, filters |-> Undefined, pageSize |-> Undefined,
   offset |-> Undefined, sortBy |-> Undefined, desc |-> Undefined,
   start |-> Undefined, end |-> Undefined]

NoCall == [name |-> "", args |-> NoArgs]

\* const { pageSize = 20 } = req.body : the default replaces undefined only
Default(v, d) == IF v = Undefined THEN d ELSE v

\* how a handler writes its parameter into the URL
WriteParam(enc, v) ==
  CASE enc = "sanitizeId" -> sanitizeId(ToText(v))
    [] enc = "encodeURIComponent" -> encodeURIComponent(ToText(v))
    [] OTHER -> ToText(v)

\* whether writing the parameter throws: the two encoders do on a lone
\* surrogate, a template literal never does
WriteParamThrows(enc, v) ==
  CASE enc = "sanitizeId" -> sanitizeIdThrows(ToText(v))
    [] enc = "encodeURIComponent" -> encodeURIComponentThrows(ToText(v))
    [] OTHER -> FALSE

IdEndpoint(h, args) == <<h.path, "?", h.param, "=">> \o WriteParam(h.enc, args[h.param])

\* the searchBody of the three search cases of handleToolCall
ToolSearchBody(args) ==
  <<Member("filters", args.filters),
    Member("pageSize", OrElse(args.pageSize, Num(20))),
    Member("offset", OrElse(args.offset, Num(0)))>>
  \o (IF Truthy(args.sortBy) THEN <<Member("sortBy", args.sortBy)>> ELSE <<>>)
  \o (IF args.desc # Undefined THEN <<Member("desc", args.desc)>> ELSE <<>>)

\* the body of the three natural-language cases of handleToolCall
ToolNlsBody(args) ==
  <<Member("query", args.query),
    Member("pageSize", OrElse(args.pageSize, Num(20))),
    Member("offset", OrElse(args.offset, Num(0)))>>

\* the searchBody of the search routes
RouteSearchBody(args) ==
  LET pageSize == Default(args.pageSize, Num(20))
      offset == Default(args.offset, Num(0))
      desc == Default(args.desc, True)
  IN <<Member("filters", args.filters), Member("pageSize", pageSize),
       Member("offset", offset)>>
     \o (IF Truthy(args.sortBy) THEN <<Member("sortBy", args.sortBy)>> ELSE <<>>)
     \o (IF desc # Undefined THEN <<Member("desc", desc)>> ELSE <<>>)

\* RouteNlsBody with the sort options of req.body passed on
RouteNlsBodyWithSort(args) ==
  <<Member("query", args.query),
    Member("pageSize", Default(args.pageSize, Num(20))),
    Member("offset", Default(args.offset, Num(0))),
    Member("sortBy", args.sortBy),
    Member("desc", args.desc)>>

\* the body of the natural-language routes
RouteNlsBody(args) ==
  <<Member("query", args.query),
    Member("pageSize", Default(args.pageSize, Num(20))),
    Member("offset", Default(args.offset, Num(0)))>>

\* What a handler does before it awaits: it throws, or answers at once, or
\* calls makeApiRequest(endpoint, method, body)
Throw(error) ==
  [kind |-> "throw", error |-> error, message |-> Undefined,
   endpoint |-> <<>>, method |-> "GET", body |-> NoBody]

Reject400(message) ==
  [kind |-> "reject", error |-> NoError, message |-> message,
   endpoint |-> <<>>, method |-> "GET", body |-> NoBody]

CallUpstream(endpoint, method, body) ==
  [kind |-> "call", error |-> NoError, message |-> Undefined,
   endpoint |-> endpoint, method |-> method, body |-> body]

\* ToolPlan with a default case that forwards the name as a path
ToolPlanForwardsUnknown(name, args) ==
  IF name \notin HandlerNames
  THEN CallUpstream(<<"/" \o name>>, "GET", NoBody)
  ELSE LET h == HandlerOf(name) IN
    CASE h.kind = "usage" -> CallUpstream(UsageEndpoint(args), "GET", NoBody)
      [] h.kind = "id" -> CallUpstream(IdEndpoint(h, args), "GET", NoBody)
      [] h.kind = "search" -> CallUpstream(<<h.path>>, "POST", Body(ToolSearchBody(args)))
      [] h.kind = "nls" -> CallUpstream(<<h.path>>, "POST", Body(ToolNlsBody(args)))
      [] h.kind = "list" -> CallUpstream(<<h.path>>, "GET", NoBody)

\* handleToolCall(name, args), from the switch to the call of makeApiRequest
ToolPlan(name, args) ==
  IF name \notin HandlerNames
  THEN Throw(Error(Str(<<"Unknown tool: ", name>>)))
  ELSE LET h == HandlerOf(name) IN
    CASE h.kind = "usage" -> CallUpstream(UsageEndpoint(args), "GET", NoBody)
      [] h.kind = "id" -> CallUpstream(IdEndpoint(h, args), "GET", NoBody)
      [] h.kind = "search" -> CallUpstream(<<h.path>>, "POST", Body(ToolSearchBody(args)))
      [] h.kind = "nls" -> CallUpstream(<<h.path>>, "POST", Body(ToolNlsBody(args)))
      [] h.kind = "list" -> CallUpstream(<<h.path>>, "GET", NoBody)

\* if (!param) return res.status(400).json({ ..., error: "<param> is required" })
RouteRequires(h, args) == h.param # "none" /\ ~Truthy(args[h.param])

\* an Express handler, from its first line to the call of makeApiRequest
RoutePlan(name, args) ==
  LET h == HandlerOf(name) IN
    IF RouteRequires(h, args) THEN Reject400(Str(<<h.param, " is required">>))
    ELSE CASE h.kind = "usage" -> CallUpstream(UsageEndpoint(args), "GET", NoBody)
           [] h.kind = "id" ->
                IF WriteParamThrows(h.enc, args[h.param])
                THEN Throw(URIError(Str(<<"URI malformed">>)))
                ELSE CallUpstream(IdEndpoint(h, args), "GET", NoBody)
           [] h.kind = "search" -> CallUpstream(<<h.path>>, "POST", Body(RouteSearchBody(args)))
           [] h.kind = "nls" -> CallUpstream(<<h.path>>, "POST", Body(RouteNlsBody(args)))
           [] h.kind = "list" -> CallUpstream(<<h.path>>, "GET", NoBody)

(***************************************************************************)
(* Replies.  An HTTP reply is a status and a JSON text; a tool reply is    *)
(* the text content block the CallTool handler returns (status 0).         *)
(***************************************************************************)
NoReply == [channel |-> "none", status |-> 0, json |-> <<>>]

\* res.status(status).json(obj)
HttpReply(status, obj) == [channel |-> "http", status |-> status, json |-> JSONstringify(obj)]

\* { content: [{ type: "text", text }] }
ToolReply(text) == [channel |-> "content", status |-> 0, json |-> text]

\* { success: false, error: error instanceof Error ? error.message : String(error) }
Failure(error) == <<Member("success", False), Member("error", error.message)>>

\* handleError answering without the message of the error
handleErrorNoMessage(error) ==
  IF error.class = "ApiError" THEN HttpReply(error.status, <<Member("success", False)>>)
  ELSE HttpReply(500, <<Member("success", False)>>)

\* handleError(error, res) of the second Express application
handleError(error) ==
  IF error.class = "ApiError" THEN HttpReply(error.status, Failure(error))
  ELSE HttpReply(500, Failure(error))

\* the catch block of every route of the first Express application
routeCatch(error) == HttpReply(500, Failure(error))

\* handleToolCall without its catch block: the CallTool handler rejects
toolCatchRethrow(error) == [channel |-> "rejected", status |-> 0, json |-> <<>>]

\* the catch block of handleToolCall, returned through the CallTool handler
toolCatch(error) == ToolReply(JSONstringify(Failure(error)))

Catch(error) ==
  CASE shell = "mcp" -> toolCatch(error)
    [] shell = "http1" -> routeCatch(error)
    [] shell = "http2" -> handleError(error)

\* Return with a count of the calls served added to the answer
ReturnCounted(result) ==
  IF shell = "mcp"
  THEN ToolReply(JSONstringify(result \o <<Member("served", Num(served))>>))
  ELSE HttpReply(200, result \o <<Member("served", Num(served))>>)

\* Return answering with the data field of the upstream body only
ReturnDataOnly(result) ==
  IF shell = "mcp" THEN ToolReply(JSONstringify(<<Member("data", Get(result, "data"))>>))
  ELSE HttpReply(200, <<Member("data", Get(result, "data"))>>)

\* res.json(result) of a route; JSON.stringify(result, null, 2) of handleToolCall
Return(result) ==
  IF shell = "mcp" THEN ToolReply(JSONstringify(result))
  ELSE HttpReply(200, result)

(***************************************************************************)
(* Inputs                                                                  *)
(***************************************************************************)
\* the longest filter list a caller sends
MaxFilters == 2

\* the number of calls a process is followed through after its first
MaxCalls == 1

\* the number of calls a process has in flight at once
MaxInFlight == 2

\* the longest identifier handed to sanitizeId, in tokens
MaxLen == 3

\* "Max 10 filters per request", the ceiling the tool descriptions state
FilterCeiling == 10

KeyValues == {Undefined, Str(<<>>), Str(<<"secret">>)}

IdValues ==
  {Undefined, Str(<<>>), Str(<<"creator">>), Str(<<"@", "creator">>),
   Str(<<"a", "&", "b">>), Str(<<"@">>), Str(<<"x", "#", "y", "?", "z", "=">>)}

DateValues == {Undefined, Str(<<>>), Str(<<"2024-01-01">>)}

QueryValues == {Undefined, Str(<<>>), Str(<<"fitness", " ", "creators">>)}

FilterList(n) == [i \in 1..n |-> "f" \o ToString(i)]

FilterValues ==
  {Undefined, Str(<<"followers">>)} \cup {Arr(FilterList(n)) : n \in 0..MaxFilters}
  \cup {Arr(FilterList(FilterCeiling + 1))}

PageSizeValues == {Undefined, Num(0), Num(50)}
OffsetValues == {Undefined, Num(0), Num(40)}
SortByValues == {Undefined, Str(<<>>), Str(<<"totalFollowers">>)}
DescValues == {Undefined, False, True}

\* the argument sets a caller may send to a handler: a search is sent every
\* filters value without options, and one filter with every choice of options
ArgsFor(h) ==
  CASE h.kind = "usage" ->
         {[NoArgs EXCEPT !.start = s, !.end = e] : s \in DateValues, e \in DateValues}
    [] h.kind = "id" -> {[NoArgs EXCEPT ![h.param] = v] : v \in IdValues}
    [] h.kind = "search" ->
         {[NoArgs EXCEPT !.filters = f] : f \in FilterValues}
         \cup {[NoArgs EXCEPT !.filters = Arr(FilterList(1)), !.pageSize = p,
                              !.offset = o, !.sortBy = sb, !.desc = d] :
                 p \in PageSizeValues, o \in OffsetValues,
                 sb \in SortByValues, d \in DescValues}
    [] h.kind = "nls" ->
         {[NoArgs EXCEPT !.query = q, !.pageSize = p, !.offset = o] :
            q \in QueryValues, p \in PageSizeValues, o \in OffsetValues}
         \cup {[NoArgs EXCEPT !.query = Str(<<"fitness", " ", "creators">>),
                              !.filters = Arr(FilterList(1)),
                              !.sortBy = Str(<<"totalFollowers">>), !.desc = False]}
    [] h.kind = "list" -> {NoArgs}

UnknownTool == "instagram_get_followers"

\* the tokens an identifier is made of, and the identifiers of at most n tokens
IdTokens == {"@", "tiktok", "x", "%", LoneSurrogate}

Texts(n) == UNION {[1..k -> IdTokens] : k \in 0..n}

\* what the upstream may answer
Statuses == {200, 299, 300, 400, 429}

ErrorDescriptions == {Undefined, Str(<<>>), Str(<<"quota exceeded">>)}
Messages == {Undefined, Str(<<>>), Str(<<"bad request">>)}
SuccessFlags == {Undefined, True, False}

\* a decoded upstream body; the payload fields come with every body that
\* is not flagged as failed
UpstreamBody(success, errorDescription, message) ==
  JSONstringify(
    <<Member("success", success),
      Member("data", IF success = False THEN Undefined ELSE Str(<<"creators">>)),
      Member("traceId", IF success = False THEN Undefined ELSE Str(<<"trace-1">>)),
      Member("timestamp", IF success = False THEN Undefined ELSE Num(1700000000)),
      Member("errorDescription", errorDescription),
      Member("message", message)>>)

\* sanitizeId has not been called
NotCalled == [called |-> FALSE, throws |-> FALSE, value |-> <<>>]

NoSettled ==
  [kind |-> "none", status |-> 0, decode |-> "none", data |-> <<>>, cause |-> Undefined]

\* fetch rejected with a cause; or it resolved with a status and a body that
\* response.json() rejects with a cause, or decodes to null, or to an object
Settlements ==
  {[kind |-> "reject", status |-> 0, decode |-> "none", data |-> <<>>,
    cause |-> Str(<<"fetch failed">>)]}
  \cup {[kind |-> "response", status |-> st, decode |-> "syntaxError", data |-> <<>>,
         cause |-> Str(<<"Unexpected token < in JSON">>)] : st \in Statuses}
  \cup {[kind |-> "response", status |-> st, decode |-> "null", data |-> <<>>,
         cause |-> Undefined] : st \in Statuses}
  \cup {[kind |-> "response", status |-> st, decode |-> "object",
         data |-> UpstreamBody(su, ed, m), cause |-> Undefined] :
          st \in Statuses, su \in SuccessFlags, ed \in ErrorDescriptions, m \in Messages}

\* no earlier call is on record
NoFirst ==
  [shell |-> "none", path |-> "", call |-> NoCall, outbound |-> <<>>,
   settled |-> NoSettled, reply |-> NoReply]

(***************************************************************************)
(* The state machine                                                       *)
(***************************************************************************)
Init ==
  /\ shell \in {"mcp", "http1", "http2"}
  /\ API_KEY \in KeyValues
  /\ pc = "start"
  /\ call = NoCall
  /\ outbound = <<>>
  /\ settled = NoSettled
  /\ reply = NoReply
  /\ served = 0
  /\ input = <<>>
  /\ sanitized = NotCalled
  /\ first = NoFirst
  /\ inflight = <<>>

\* module load: index.ts and the first Express application exit without a
\* key, the second Express application starts regardless
Startup ==
  /\ pc = "start"
  /\ pc' = IF shell \in {"mcp", "http1"} /\ ~Truthy(API_KEY) THEN "exited" ELSE "idle"
  /\ UNCHANGED <<shell, API_KEY, call, outbound, settled, reply, served>>
  /\ UNCHANGED sanitizeVars
  /\ UNCHANGED pairVars

\* a handler runs from its first line to its first await, or to its reply
Begin(name, args, plan) ==
  LET send == makeApiRequestSend(plan.endpoint, plan.method, plan.body) IN
  /\ call' = [name |-> name, args |-> args]
  /\ CASE plan.kind = "reject" ->
            /\ reply' = HttpReply(400, <<Member("success", False),
                                         Member("error", plan.message)>>)
            /\ pc' = "replied"
            /\ UNCHANGED outbound
       [] plan.kind = "throw" ->
            /\ reply' = Catch(plan.error)
            /\ pc' = "replied"
            /\ UNCHANGED outbound
       [] plan.kind = "call" /\ send.throws ->
            /\ reply' = Catch(send.error)
            /\ pc' = "replied"
            /\ UNCHANGED outbound
       [] plan.kind = "call" /\ ~send.throws ->
            /\ outbound' = Append(outbound, send.request)
            /\ pc' = "fetching"
            /\ UNCHANGED reply
  /\ UNCHANGED <<shell, API_KEY, settled, served>>
  /\ UNCHANGED sanitizeVars
  /\ UNCHANGED pairVars

ToolNames == {tools[i].name : i \in 1..Len(tools)}

\* { tools }: the names of the tool list, in order
ToolsReply ==
  [channel |-> "tools", status |-> 0, json |-> [i \in 1..Len(tools) |-> tools[i].name]]

\* the ListTools request handler returns the tool list
ListTools ==
  /\ pc = "idle"
  /\ shell = "mcp"
  /\ reply' = ToolsReply
  /\ pc' = "listed"
  /\ UNCHANGED <<shell, API_KEY, call, outbound, settled, served>>
  /\ UNCHANGED sanitizeVars
  /\ UNCHANGED pairVars

\* the CallTool request handler calls handleToolCall(name, args || {})
ToolCall(name, args) ==
  /\ pc = "idle"
  /\ shell = "mcp"
  /\ Begin(name, args, ToolPlan(name, args))

\* Express dispatches a request to the route registered for it
HttpRequest(name, args) ==
  /\ pc = "idle"
  /\ shell \in {"http1", "http2"}
  /\ Begin(name, args, RoutePlan(name, args))

\* the upstream answers, or the network fails
FetchSettles(s) ==
  /\ pc = "fetching"
  /\ settled' = s
  /\ pc' = "settled"
  /\ UNCHANGED <<shell, API_KEY, call, outbound, reply, served>>
  /\ UNCHANGED sanitizeVars
  /\ UNCHANGED pairVars

\* Resume with a catch block that sends nothing
ResumeSwallowsError ==
  /\ pc = "settled"
  /\ LET r == makeApiRequestReceive(settled) IN
       IF r.throws
       THEN UNCHANGED <<reply, pc>>
       ELSE reply' = Return(r.data) /\ pc' = "replied"
  /\ UNCHANGED <<shell, API_KEY, call, outbound, settled, served>>
  /\ UNCHANGED sanitizeVars
  /\ UNCHANGED pairVars

\* the handler resumes after the await and replies
Resume ==
  /\ pc = "settled"
  /\ LET r == makeApiRequestReceive(settled) IN
       reply' = IF r.throws THEN Catch(r.error) ELSE Return(r.data)
  /\ pc' = "replied"
  /\ UNCHANGED <<shell, API_KEY, call, outbound, settled, served>>
  /\ UNCHANGED sanitizeVars
  /\ UNCHANGED pairVars

\* the call is over; the process waits for the next one
NextCall ==
  /\ pc \in {"replied", "listed"}
  /\ served < MaxCalls
  /\ served' = served + 1
  /\ pc' = "idle"
  /\ call' = NoCall
  /\ outbound' = <<>>
  /\ settled' = NoSettled
  /\ reply' = NoReply
  /\ UNCHANGED <<shell, API_KEY>>
  /\ UNCHANGED sanitizeVars
  /\ UNCHANGED pairVars

Next ==
  \/ Startup
  \/ /\ pc = "idle"
     /\ shell = "mcp"
     /\ \E name \in HandlerNames \cup ToolNames \cup {UnknownTool} :
          \E args \in (IF name \in HandlerNames THEN ArgsFor(HandlerOf(name)) ELSE {NoArgs}) :
            ToolCall(name, args)
  \/ /\ pc = "idle"
     /\ shell \in {"http1", "http2"}
     /\ \E name \in HandlerNames : \E args \in ArgsFor(HandlerOf(name)) :
          HttpRequest(name, args)
  \/ /\ pc = "fetching"
     /\ \E s \in Settlements : FetchSettles(s)
  \/ Resume
  \/ ListTools
  \/ NextCall

Spec == Init /\ [][Next]_vars

(***************************************************************************)
(* An Express application followed through one request, under the fairness *)
(* the event loop gives: the continuation of a handler whose await has     *)
(* settled is run.                                                         *)
(***************************************************************************)
HttpInit == Init /\ shell \in {"http1", "http2"}

HttpNext ==
  \/ Startup
  \/ /\ pc = "idle"
     /\ \E name \in HandlerNames : \E args \in ArgsFor(HandlerOf(name)) :
          HttpRequest(name, args)
  \/ /\ pc = "fetching"
     /\ \E s \in Settlements : FetchSettles(s)
  \/ Resume

HttpLiveSpec == HttpInit /\ [][HttpNext]_vars /\ WF_vars(Resume)

(***************************************************************************)
(* One call made twice: a call is served, put on record, and made once     *)
(* more with the same arguments, to the same process or to a process that  *)
(* runs another shell with the same configuration.                         *)
(***************************************************************************)
\* what the upstream answers in this specification: a rejection, a body
\* that does not decode, null, a success, a flagged failure, a bare 429
PairSettlements ==
  {s \in Settlements :
     \/ s.kind = "reject"
     \/ s.status = 200 /\ s.decode \in {"syntaxError", "null"}
     \/ s.status = 200 /\ s.decode = "object"
          /\ s.data \in {UpstreamBody(True, Undefined, Undefined),
                          UpstreamBody(False, Str(<<"quota exceeded">>), Undefined)}
     \/ s.status = 429 /\ s.decode = "object"
          /\ s.data = UpstreamBody(Undefined, Undefined, Undefined)}

\* the names under which this shell offers the operation on record, and
\* every name when none is on record
PairNames ==
  {name \in HandlerNames : first = NoFirst \/ HandlerOf(name).path = first.path}

PairArgs(name) == IF first = NoFirst THEN ArgsFor(HandlerOf(name)) ELSE {first.call.args}

\* the call that was served is put on record and is about to be made again,
\* to this process or to a process running another shell
Again ==
  /\ pc = "replied"
  /\ first = NoFirst
  /\ call.name \in HandlerNames
  /\ first' = [shell |-> shell, path |-> HandlerOf(call.name).path, call |-> call,
               outbound |-> outbound, settled |-> settled, reply |-> reply]
  /\ \E sh \in {"mcp", "http1", "http2"} :
       /\ shell' = sh
       /\ pc' = IF sh = shell THEN "idle" ELSE "start"
       /\ served' = IF sh = shell THEN served + 1 ELSE 0
  /\ call' = NoCall
  /\ outbound' = <<>>
  /\ settled' = NoSettled
  /\ reply' = NoReply
  /\ UNCHANGED <<API_KEY, inflight>>
  /\ UNCHANGED sanitizeVars

PairNext ==
  \/ Startup
  \/ /\ pc = "idle"
     /\ shell = "mcp"
     /\ \E name \in PairNames : \E args \in PairArgs(name) : ToolCall(name, args)
  \/ /\ pc = "idle"
     /\ shell \in {"http1", "http2"}
     /\ \E name \in PairNames : \E args \in PairArgs(name) : HttpRequest(name, args)
  \/ /\ pc = "fetching"
     /\ \E s \in PairSettlements : FetchSettles(s)
  \/ Resume
  \/ Again

PairSpec == Init /\ [][PairNext]_vars

(***************************************************************************)
(* Concurrent calls.  A handler is an async function: between its call of  *)
(* fetch and its resumption the process takes other requests, each handled *)
(* by its own invocation with its own locals (name, args, result, data).   *)
(* inflight[i] holds the locals of invocation i.                           *)
(***************************************************************************)
Slots == 1..MaxInFlight

\* an invocation that has not begun
NoSlot ==
  [pc |-> "idle", call |-> NoCall, outbound |-> <<>>, settled |-> NoSettled,
   reply |-> NoReply]

\* the operations and the arguments called in this specification: a GET
\* with an identifier, given and left out, and a POST with a body
ConcurrentPaths == {"/instagram/profile", "/youtube/search"}

\* what the upstream answers in this specification: a rejection, a
\* success, a flagged failure, a bare 429
ConcurrentSettlements == {s \in PairSettlements : s.decode \notin {"syntaxError", "null"}}

ConcurrentArgs(h) ==
  CASE h.kind = "usage" -> {NoArgs}
    [] h.kind = "id" ->
         {[NoArgs EXCEPT ![h.param] = v] : v \in {Undefined, Str(<<"@", "creator">>)}}
    [] h.kind = "search" -> {[NoArgs EXCEPT !.filters = Arr(FilterList(1))]}
    [] h.kind = "nls" -> {[NoArgs EXCEPT !.query = Str(<<"fitness", " ", "creators">>)]}
    [] h.kind = "list" -> {NoArgs}

ConcurrentNames == {name \in HandlerNames : HandlerOf(name).path \in ConcurrentPaths}

ConcurrentInit ==
  /\ shell \in {"mcp", "http1", "http2"}
  /\ API_KEY \in KeyValues
  /\ pc = "start"
  /\ call = NoCall
  /\ outbound = <<>>
  /\ settled = NoSettled
  /\ reply = NoReply
  /\ served = 0
  /\ input = <<>>
  /\ sanitized = NotCalled
  /\ first = NoFirst
  /\ inflight = [i \in Slots |-> NoSlot]

\* invocation i runs from its first line to its first await, or to its reply
BeginIn(i, name, args, plan) ==
  LET send == makeApiRequestSend(plan.endpoint, plan.method, plan.body)
      began == [NoSlot EXCEPT !.call = [name |-> name, args |-> args]]
  IN
  /\ pc = "idle"
  /\ inflight[i].pc = "idle"
  /\ inflight' = [inflight EXCEPT ![i] =
       CASE plan.kind = "reject" ->
              [began EXCEPT !.pc = "replied",
                            !.reply = HttpReply(400, <<Member("success", False),
                                                       Member("error", plan.message)>>)]
         [] plan.kind = "throw" ->
              [began EXCEPT !.pc = "replied", !.reply = Catch(plan.error)]
         [] plan.kind = "call" /\ send.throws ->
              [began EXCEPT !.pc = "replied", !.reply = Catch(send.error)]
         [] plan.kind = "call" /\ ~send.throws ->
              [began EXCEPT !.pc = "fetching", !.outbound = <<send.request>>]]
  /\ UNCHANGED callVars
  /\ UNCHANGED sanitizeVars
  /\ UNCHANGED first

ToolCallIn(i, name, args) ==
  /\ shell = "mcp"
  /\ BeginIn(i, name, args, ToolPlan(name, args))

HttpRequestIn(i, name, args) ==
  /\ shell \in {"http1", "http2"}
  /\ BeginIn(i, name, args, RoutePlan(name, args))

\* the fetch of invocation i settles
FetchSettlesIn(i, s) ==
  /\ inflight[i].pc = "fetching"
  /\ inflight' = [inflight EXCEPT ![i].pc = "settled", ![i].settled = s]
  /\ UNCHANGED callVars
  /\ UNCHANGED sanitizeVars
  /\ UNCHANGED first

\* ResumeIn with the decoded response kept in one binding of the module
\* instead of a local: an invocation reads what the lowest settled one stored
ResumeInShared(i) ==
  /\ inflight[i].pc = "settled"
  /\ LET j == CHOOSE k \in Slots :
                /\ inflight[k].pc = "settled"
                /\ \A l \in Slots : inflight[l].pc = "settled" => k <= l
         r == makeApiRequestReceive(inflight[j].settled)
     IN inflight' = [inflight EXCEPT ![i].pc = "replied",
                       ![i].reply = IF r.throws THEN Catch(r.error) ELSE Return(r.data)]
  /\ UNCHANGED callVars
  /\ UNCHANGED sanitizeVars
  /\ UNCHANGED first

\* invocation i resumes after its await and replies
ResumeIn(i) ==
  /\ inflight[i].pc = "settled"
  /\ LET r == makeApiRequestReceive(inflight[i].settled) IN
       inflight' = [inflight EXCEPT ![i].pc = "replied",
                      ![i].reply = IF r.throws THEN Catch(r.error) ELSE Return(r.data)]
  /\ UNCHANGED callVars
  /\ UNCHANGED sanitizeVars
  /\ UNCHANGED first

ConcurrentNext ==
  \/ Startup
  \/ /\ pc = "idle"
     /\ shell = "mcp"
     /\ \E i \in Slots : \E name \in ConcurrentNames :
          \E args \in ConcurrentArgs(HandlerOf(name)) : ToolCallIn(i, name, args)
  \/ /\ pc = "idle"
     /\ shell \in {"http1", "http2"}
     /\ \E i \in Slots : \E name \in ConcurrentNames :
          \E args \in ConcurrentArgs(HandlerOf(name)) : HttpRequestIn(i, name, args)
  \/ \E i \in Slots : \E s \in ConcurrentSettlements : FetchSettlesIn(i, s)
  \/ \E i \in Slots : ResumeIn(i)

ConcurrentSpec == ConcurrentInit /\ [][ConcurrentNext]_vars

(***************************************************************************)
(* sanitizeId on its own: an identifier is drawn, the function is applied  *)
(* to it once, and it returns a string or throws.                          *)
(***************************************************************************)
SanitizeInit ==
  /\ shell = "http2"
  /\ API_KEY = Undefined
  /\ pc = "start"
  /\ call = NoCall
  /\ outbound = <<>>
  /\ settled = NoSettled
  /\ reply = NoReply
  /\ served = 0
  /\ input \in Texts(MaxLen)
  /\ sanitized = NotCalled
  /\ first = NoFirst
  /\ inflight = <<>>

\* sanitizeId(input)
Sanitize ==
  /\ ~sanitized.called
  /\ sanitized' = IF sanitizeIdThrows(input)
                  THEN [called |-> TRUE, throws |-> TRUE, value |-> <<>>]
                  ELSE [called |-> TRUE, throws |-> FALSE, value |-> sanitizeId(input)]
  /\ UNCHANGED input
  /\ UNCHANGED callVars
  /\ UNCHANGED pairVars

SanitizeNext == Sanitize

SanitizeSpec == SanitizeInit /\ [][SanitizeNext]_vars

(***************************************************************************)
(* The operations as the specification lists them (section 6): a tool name *)
(* and a route per operation, its upstream method and path, and the        *)
(* parameter it requires.                                                  *)
(***************************************************************************)
Platforms == {"instagram", "youtube", "tiktok"}

GetActions(p) ==
  {"profile", "contact", "content-detail", "performance", "performance-history",
   "audience", "niches"}
  \cup (IF p \in {"instagram", "youtube"} THEN {"sponsorship"} ELSE {})
  \cup (IF p = "youtube" THEN {"topics"} ELSE {})

RequiredOf(p, a) ==
  IF a \in {"niches", "topics"} THEN "none"
  ELSE IF a = "content-detail" THEN "contentId"
  ELSE IF p = "youtube" THEN "channelId" ELSE "uniqueId"

ToolWord(a) ==
  CASE a = "content-detail" -> "content_detail"
    [] a = "performance-history" -> "performance_history"
    [] OTHER -> a

Operations ==
  {[tool |-> "get_api_usage", route |-> "GET /api/usage", method |-> "GET",
    path |-> "/usage", required |-> "none"]}
  \cup UNION {{[tool |-> p \o "_get_" \o ToolWord(a),
                 route |-> "GET /api/" \o p \o "/" \o a,
                 method |-> "GET", path |-> "/" \o p \o "/" \o a,
                 required |-> RequiredOf(p, a)] : a \in GetActions(p)} : p \in Platforms}
  \cup {[tool |-> p \o "_search", route |-> "POST /api/" \o p \o "/search",
         method |-> "POST", path |-> "/" \o p \o "/search",
         required |-> "filters"] : p \in Platforms}
  \cup {[tool |-> p \o "_natural_language_search",
         route |-> "POST /api/" \o p \o "/natural-language-search",
         method |-> "POST", path |-> "/" \o p \o "/nls",
         required |-> "query"] : p \in Platforms}

NameIn(o) == IF shell = "mcp" THEN o.tool ELSE o.route

IsOperation(name) == \E o \in Operations : NameIn(o) = name

OperationOf(name) == CHOOSE o \in Operations : NameIn(o) = name

\* a required parameter is present and valid: an identifier or a query is a
\* string that is not empty, filters is a sequence
ValidFor(o, args) ==
  \/ o.required = "none"
  \/ o.required = "filters" /\ args.filters[1] = "arr"
  \/ o.required \notin {"none", "filters"}
       /\ args[o.required][1] = "str" /\ Len(args[o.required]) > 1

\* the text of an identifier that needs no escaping
PlainIds == {Str(<<"creator">>)}

(***************************************************************************)
(* The states of a call                                                    *)
(***************************************************************************)
InCall == pc \in {"fetching", "settled", "replied"}

Replied == pc = "replied"

Http == shell \in {"http1", "http2"}

\* the upstream answered with a body that decoded to an object
Answered == settled.kind = "response" /\ settled.decode = "object"

In2xx(status) == status \in 200..299

\* the upstream answered and reported a failure
UpstreamFailed ==
  Answered /\ (~In2xx(settled.status) \/ Get(settled.data, "success") = False)

\* the upstream answered and reported no failure
UpstreamSucceeded ==
  Answered /\ In2xx(settled.status) /\ Get(settled.data, "success") # False

\* fetch rejected, or the body could not be decoded
TransportFailed ==
  settled.kind = "reject" \/ (settled.kind = "response" /\ settled.decode = "syntaxError")

IsText(v) == v[1] = "str" /\ Len(v) > 1

\* the reply is the failure envelope: success:false and an error string
ReplyFails ==
  /\ reply.channel \in {"http", "content"}
  /\ Get(reply.json, "success") = False
  /\ IsText(Get(reply.json, "error"))

(***************************************************************************)
(* Claims                                                                  *)
(***************************************************************************)

\* C1: for every operation, in the tool shell and in the HTTP shells, a call
\* whose required parameters are all present and valid issues exactly one
\* outbound request, with the method and the upstream path of the operation
\* (and, for an identifier that needs no escaping,
\* GET <path>?<parameter>=<identifier>).
C1_OneRequestToOperationPath ==
  InCall /\ call.name # UnknownTool =>
    /\ IsOperation(call.name)
    /\ LET o == OperationOf(call.name) IN
         ValidFor(o, call.args) =>
           /\ Len(outbound) = 1
           /\ outbound[1].method = o.method
           /\ SubSeq(outbound[1].url, 1, 2) = <<API_BASE_URL, o.path>>
           /\ Len(outbound[1].url) > 2 => outbound[1].url[3] = "?"
           /\ (o.required \notin {"none", "filters", "query"}
                 /\ call.args[o.required] \in PlainIds) =>
                outbound[1].url = <<API_BASE_URL, o.path, "?", o.required, "=">>
                                    \o Tail(call.args[o.required])

\* C2: for every operation and every required parameter of it, a call that
\* omits the parameter is answered with a caller error that names the
\* parameter, no outbound request is issued, in the tool shell as in the
\* HTTP shells, and the HTTP shells answer with status 400.
C2_MissingParameterRejected ==
  InCall /\ IsOperation(call.name) =>
    LET o == OperationOf(call.name) IN
      (o.required # "none" /\ call.args[o.required] = Undefined) =>
        /\ outbound = <<>>
        /\ Replied
        /\ ReplyFails
        /\ \E i \in 1..Len(Get(reply.json, "error")) :
             Get(reply.json, "error")[i] = o.required
        /\ Http => reply.status = 400

ReplyError == Get(reply.json, "error")

IsPresent(v) == v # Undefined

\* C4 as stated: the error string of an upstream failure is the
\* errorDescription of the body when present, else its message when
\* present, else "API Error: <status>".
C4_ErrorStringByPresence ==
  Replied /\ UpstreamFailed =>
    LET ed == Get(settled.data, "errorDescription")
        m == Get(settled.data, "message")
    IN ReplyError = IF IsPresent(ed) THEN ed
                    ELSE IF IsPresent(m) THEN m
                    ELSE Str(<<"API Error: ", ToString(settled.status)>>)

\* C4, amended: the error string of an upstream failure is the
\* errorDescription of the body when present and not empty, else its
\* message when present and not empty, else "API Error: <status>"; so
\* {success:false, errorDescription:"quota exceeded"} with status 429 gives
\* "quota exceeded", and a body with neither field and status 400 gives
\* "API Error: 400".
C4_ErrorStringByNonEmptyField ==
  Replied /\ UpstreamFailed =>
    LET ed == Get(settled.data, "errorDescription")
        m == Get(settled.data, "message")
    IN /\ ReplyFails
       /\ ReplyError = IF IsText(ed) THEN ed
                       ELSE IF IsText(m) THEN m
                       ELSE Str(<<"API Error: ", ToString(settled.status)>>)
       /\ (settled.status = 429 /\ ed = Str(<<"quota exceeded">>)) =>
            ReplyError = Str(<<"quota exceeded">>)
       /\ (settled.status = 400 /\ ~IsPresent(ed) /\ ~IsPresent(m)) =>
            ReplyError = Str(<<"API Error: ", "400">>)

C4_Witness ==
  /\ Replied /\ UpstreamFailed
  /\ Get(settled.data, "errorDescription") = Str(<<>>)
  /\ Get(settled.data, "message") = Str(<<"bad request">>)
  /\ ReplyError = Str(<<"bad request">>)

\* C5: whenever the upstream answer is a success, the reply handed to the
\* caller is the whole decoded upstream body, every field as it came, in the
\* tool shell and in the HTTP shells.
C5_SuccessPassesThrough ==
  Replied /\ UpstreamSucceeded =>
    /\ reply.json = settled.data
    /\ \A k \in {"success", "data", "traceId", "timestamp"} :
         Get(reply.json, k) = Get(settled.data, k)
    /\ reply.channel = IF Http THEN "http" ELSE "content"

C5_Witness ==
  /\ Replied /\ UpstreamSucceeded
  /\ shell = "mcp"
  /\ Get(settled.data, "success") = True
  /\ Get(reply.json, "data") = Str(<<"creators">>)
  /\ Get(reply.json, "traceId") = Str(<<"trace-1">>)

\* C6: in the HTTP shells, whenever the upstream answers with a failure
\* (a status outside 2xx, or success:false) the reply to the caller carries
\* the status code the upstream sent.
C6_UpstreamStatusPreserved ==
  Http /\ Replied /\ UpstreamFailed => reply.status = settled.status

\* C7: in the HTTP shells every call that ends in a failure (caller error,
\* transport error, upstream failure, an upstream 200 with success:false
\* included) is answered with a status outside 2xx and a JSON error body;
\* a 2xx status is sent for successes only.
C7_FailureIsNot2xx ==
  Http /\ Replied =>
    /\ ~UpstreamSucceeded => (~In2xx(reply.status) /\ ReplyFails)
    /\ In2xx(reply.status) => UpstreamSucceeded

\* the tool call failed: unknown tool, transport failure or upstream failure
ToolCallFailed ==
  \/ call.name = UnknownTool
  \/ TransportFailed
  \/ UpstreamFailed

\* C8: in the tool shell handleToolCall never throws: every call is answered
\* with a text content block, and when the call failed (unknown tool,
\* transport failure, upstream failure) its JSON has success:false and an
\* error string.
C8_ToolCallNeverThrows ==
  shell = "mcp" /\ Replied =>
    /\ reply.channel = "content"
    /\ ToolCallFailed => ReplyFails

C8_Witness ==
  /\ shell = "mcp" /\ Replied
  /\ call.name = UnknownTool
  /\ reply.channel = "content"
  /\ ReplyError = Str(<<"Unknown tool: ", UnknownTool>>)

\* C9: no failure is swallowed or retried: every call that ends without a
\* successful upstream answer (rejected parameter, unknown tool, missing key,
\* transport failure, upstream failure) is answered with success:false and an
\* error string, and no call issues more than one outbound request.
C9_FailureReachesCaller ==
  /\ Len(outbound) <= 1
  /\ (Replied /\ ~UpstreamSucceeded) => ReplyFails

C9_Witness ==
  /\ Replied
  /\ shell = "http2"
  /\ settled.kind = "reject"
  /\ ReplyFails
  /\ Len(outbound) = 1

\* C10: when the outbound call fails at transport level (fetch rejects, or
\* the body cannot be decoded) the reply is a failure whose error is the
\* message of the underlying error, with status 500 in the HTTP shells,
\* whatever status the upstream sent.
C10_TransportFailureFirst ==
  Replied /\ TransportFailed =>
    /\ ReplyFails
    /\ ReplyError = settled.cause
    /\ Http => reply.status = 500

C10_Witness ==
  /\ Replied
  /\ shell = "http2"
  /\ settled.decode = "syntaxError"
  /\ settled.status = 429
  /\ reply.status = 500
  /\ ReplyError = Str(<<"Unexpected token < in JSON">>)

(***************************************************************************)
(* The request a call sent                                                 *)
(***************************************************************************)
\* the call is to a structured search, or to a natural-language search
SearchCall == InCall /\ IsOperation(call.name) /\ OperationOf(call.name).required = "filters"

NlsCall == InCall /\ IsOperation(call.name) /\ OperationOf(call.name).required = "query"

UsageCall == InCall /\ IsOperation(call.name) /\ OperationOf(call.name).path = "/usage"

Sent == outbound # <<>>

\* the JSON body of the request the call sent
SentBody == outbound[1].body

KeysOf(obj) == [i \in 1..Len(obj) |-> KeyOf(obj[i])]

IsSequence(v) == v[1] = "arr"

\* C11: in the tool shell, dispatching a name that is not an operation of the
\* registry is answered with a failure whose error names the unknown
\* operation, and no outbound request is issued.
C11_UnknownOperationFails ==
  (InCall /\ shell = "mcp" /\ ~IsOperation(call.name)) =>
    /\ Replied
    /\ outbound = <<>>
    /\ ReplyFails
    /\ \E i \in 1..Len(ReplyError) : ReplyError[i] = call.name

C11_Witness ==
  /\ Replied
  /\ ~IsOperation(call.name)
  /\ outbound = <<>>
  /\ ReplyFails
  /\ ReplyError[Len(ReplyError)] = UnknownTool

\* C12: for every search operation, in the tool shell and in the HTTP shells,
\* the request sent for a call that supplies filters and none of pageSize,
\* offset, desc and sortBy has a body with pageSize 20, offset 0, desc true
\* and no sortBy field.
C12_SearchDefaults ==
  (SearchCall /\ Sent /\ call.args.filters # Undefined
     /\ \A k \in {"pageSize", "offset", "desc", "sortBy"} : call.args[k] = Undefined) =>
    /\ Get(SentBody, "pageSize") = Num(20)
    /\ Get(SentBody, "offset") = Num(0)
    /\ Get(SentBody, "desc") = True
    /\ ~Has(SentBody, "sortBy")

\* C13: for every search operation a default is applied only when the field
\* is absent: a supplied pageSize, offset, desc or sortBy, the falsy values
\* 0, false and "" included, is in the body of the request unchanged, and
\* filters is in the body as it was given.
C13_SuppliedValuesForwarded ==
  (SearchCall /\ Sent) =>
    /\ \A k \in {"pageSize", "offset", "desc", "sortBy"} :
         call.args[k] # Undefined => Get(SentBody, k) = call.args[k]
    /\ Get(SentBody, "filters") = call.args.filters

\* C14: a search call whose filters argument is absent, or is present and
\* not a sequence, is answered with a caller error and no outbound request
\* is issued.
C14_FiltersValidated ==
  (SearchCall /\ ~IsSequence(call.args.filters)) =>
    /\ outbound = <<>>
    /\ Replied
    /\ ReplyFails

\* C15: the body of every search request sent upstream carries at most 10
\* filters; a call with more than 10 filters never has them all sent.
C15_AtMostTenFilters ==
  (SearchCall /\ Sent /\ IsSequence(Get(SentBody, "filters"))) =>
    Len(Get(SentBody, "filters")) - 1 <= FilterCeiling

C17_IdentifierSanitized ==
  (InCall /\ IsOperation(call.name) /\ Sent
     /\ OperationOf(call.name).required \in {"uniqueId", "channelId", "contentId"}) =>
    LET o == OperationOf(call.name)
        v == call.args[o.required]
    IN v[1] = "str" =>
         outbound[1].url =
           <<API_BASE_URL, o.path, "?", o.required, "=">>
             \o (IF o.required = "contentId" THEN encodeURIComponent(Tail(v))
                 ELSE sanitizeId(Tail(v)))

\* what percent-encoding a string comes to: the escaped string, or an error
EncodedForm(text) ==
  IF \E i \in 1..Len(text) : text[i] = LoneSurrogate
  THEN [called |-> TRUE, throws |-> TRUE, value |-> <<>>]
  ELSE [called |-> TRUE, throws |-> FALSE, value |-> encodeURIComponent(text)]

\* C18: sanitizeId strips at most one leading "@" and percent-encodes the
\* rest: sanitizeId("@" + s) is the percent-encoded form of s, and for s not
\* starting with "@" sanitizeId(s) is the percent-encoded form of s; so
\* "@tiktok" and "tiktok" both give "tiktok", and "@@x" gives "%40x".
C18_SanitizeStripsOneAt ==
  sanitized.called =>
    /\ (input # <<>> /\ input[1] = "@") => sanitized = EncodedForm(Tail(input))
    /\ (input = <<>> \/ input[1] # "@") => sanitized = EncodedForm(input)
    /\ input \in {<<"@", "tiktok">>, <<"tiktok">>} => sanitized.value = <<"tiktok">>
    /\ input = <<"@", "@", "x">> => sanitized.value = <<"%40", "x">>

C18_Witness ==
  /\ sanitized.called
  /\ input = <<"@", "@", "x">>
  /\ ~sanitized.throws
  /\ sanitized.value = <<"%40", "x">>

\* C19: sanitizeId is total: for every string it returns a string and
\* throws nothing, the empty string (which gives the empty string) and the
\* strings that cannot be percent-encoded included.
C19_SanitizeTotal ==
  sanitized.called =>
    /\ ~sanitized.throws
    /\ input = <<>> => sanitized.value = <<>>

\* the names of the parameters in the query string of the request
SentKeys ==
  {outbound[1].url[i] : i \in {j \in 1..Len(outbound[1].url) :
                                 outbound[1].url[j] \in {"start", "end"}}}

\* C20: for the usage operation the outbound query string has exactly the
\* keys among start and end that the caller supplied: a key is left out only
\* when it is absent, a supplied empty or otherwise falsy value is still
\* written; with neither supplied the URL is /usage with no query string.
C20_UsageKeysByPresence ==
  (UsageCall /\ Sent) =>
    /\ SentKeys = {k \in {"start", "end"} : call.args[k] # Undefined}
    /\ (call.args.start = Undefined /\ call.args.end = Undefined) =>
         outbound[1].url = <<API_BASE_URL, "/usage">>

\* the outbound requests are those of the operation the call names
SentForOperation == InCall /\ IsOperation(call.name) /\ Sent

\* C21: every outbound request, for every operation, targets the base URL
\* followed by the path of the operation, carries Content-Type:
\* application/json and an api-key header equal to the configured key, and
\* has a body only when its method is POST; a GET request has none.
C21_RequestHeadersAndBody ==
  \A i \in 1..Len(outbound) :
    LET request == outbound[i] IN
      /\ IsOperation(call.name)
      /\ SubSeq(request.url, 1, 2) = <<API_BASE_URL, OperationOf(call.name).path>>
      /\ request.contentType = "application/json"
      /\ request.apiKey = API_KEY
      /\ request.method \in {"GET", "POST"}
      /\ request.hasBody => request.method = "POST"
      /\ request.method = "GET" => (~request.hasBody /\ request.body = <<>>)

C21_Witness ==
  /\ SentForOperation
  /\ outbound[1].method = "POST"
  /\ outbound[1].hasBody
  /\ outbound[1].apiKey = Str(<<"secret">>)
  /\ outbound[1].url = <<API_BASE_URL, "/tiktok/search">>

\* C22: when the API key is absent from the configuration the process
\* refuses to serve: it handles no incoming request and issues no outbound
\* request.
C22_NoKeyNoService ==
  ~Truthy(API_KEY) =>
    /\ pc \in {"start", "exited"}
    /\ call = NoCall
    /\ reply = NoReply
    /\ outbound = <<>>

\* the call is to a GET operation that takes one identifier
IdCall ==
  /\ InCall
  /\ IsOperation(call.name)
  /\ OperationOf(call.name).required \in {"uniqueId", "channelId", "contentId"}

\* the identifier the caller gave
IdGiven == call.args[OperationOf(call.name).required]

\* C29: for every GET operation that takes one identifier, in the tool shell
\* and in the HTTP shells, the value the caller gives cannot change the shape
\* of the outbound request: whatever it holds ("&", "=", "#", "?" included),
\* the URL is the fixed path of the operation with exactly one query
\* parameter, named after the identifier parameter.
C29_IdentifierKeepsUrlShape ==
  (IdCall /\ Sent /\ IdGiven[1] = "str") =>
    LET o == OperationOf(call.name)
        url == outbound[1].url
    IN /\ SubSeq(url, 1, 5) = <<API_BASE_URL, o.path, "?", o.required, "=">>
       /\ \A i \in 6..Len(url) : url[i] \notin {"&", "=", "#", "?"}

\* C30: in the HTTP shells an identifier-taking GET operation never sends an
\* empty identifier upstream: a request whose uniqueId is empty once
\* sanitized (the value "@" for one) is answered with status 400 and no
\* outbound request is issued.
C30_EmptyIdentifierRejected ==
  (Http /\ IdCall /\ OperationOf(call.name).required = "uniqueId"
     /\ IdGiven[1] = "str" /\ sanitizeId(Tail(IdGiven)) = <<>>) =>
    /\ outbound = <<>>
    /\ Replied
    /\ reply.status = 400

\* the ListTools handler has answered
Listed == pc = "listed"

\* C26: every operation name of the registry is unique: no two entries of
\* the tool list share a name, and the list a ListTools request returns is
\* the list of process start, whatever calls were served before.
C26_ToolNamesUnique ==
  Listed =>
    /\ \A i, j \in 1..Len(reply.json) : reply.json[i] = reply.json[j] => i = j
    /\ Len(reply.json) = Len(tools)
    /\ \A i \in 1..Len(tools) : reply.json[i] = tools[i].name

C26_Witness ==
  /\ Listed
  /\ served = MaxCalls
  /\ reply.json[1] = "get_api_usage"
  /\ reply.json[Len(reply.json)] = "tiktok_get_niches"

\* C28: the advertised tool list and the dispatch switch agree: every name
\* the ListTools handler returns has a case in handleToolCall, so that a call
\* of an advertised tool is never answered "Unknown tool", and every case of
\* the switch is the name of an advertised tool.
C28_ToolListMatchesSwitch ==
  /\ Listed =>
       /\ \A i \in 1..Len(reply.json) :
            \E k \in 1..Len(toolCases) : toolCases[k].name = reply.json[i]
       /\ \A k \in 1..Len(toolCases) :
            \E i \in 1..Len(reply.json) : reply.json[i] = toolCases[k].name
  /\ (shell = "mcp" /\ Replied /\ call.name \in ToolNames /\ ReplyFails) =>
       ReplyError[2] # "Unknown tool: "

C28_Witness ==
  /\ shell = "mcp"
  /\ Replied
  /\ call.name = "youtube_get_topics"
  /\ call.name \in ToolNames
  /\ UpstreamSucceeded
  /\ ~ReplyFails

\* C27: in the HTTP shells every request to an /api route receives exactly
\* one response: once a response is sent the handler sends no other one
\* (not after a 400 validation reply, not after an error), a handled request
\* is answered on the HTTP channel, and whenever the outbound call has
\* resolved or rejected a response is eventually sent.
C27_ExactlyOneResponse ==
  /\ [][(Http /\ reply # NoReply) => reply' \in {reply, NoReply}]_vars
  /\ [](Http /\ Replied => (reply.channel = "http" /\ reply.status \in 200..599))
  /\ ((Http /\ pc = "settled") ~> (Http /\ Replied))

C27_Witness ==
  /\ shell = "http1"
  /\ Replied
  /\ settled.kind = "response"
  /\ settled.decode = "syntaxError"
  /\ reply.channel = "http"
  /\ reply.status = 500

\* an earlier call is on record and the same call is under way again
Repeating == first # NoFirst /\ InCall

\* the call on record failed
FirstFails == Get(first.reply.json, "success") = False

\* C23: the tool shell and the HTTP shells have the same semantics: for
\* every operation and every argument set, the HTTP shell issues the request
\* the tool shell issued (same method, path, query string and body) or both
\* issue none, and both classify the same upstream response the same way.
C23_ShellsAgree ==
  (Repeating /\ first.shell = "mcp" /\ Http) =>
    /\ outbound = first.outbound
    /\ (Replied /\ settled = first.settled) => (ReplyFails <=> FirstFails)

SucceededIn(i) ==
  LET s == inflight[i].settled IN
    /\ s.kind = "response" /\ s.decode = "object"
    /\ In2xx(s.status) /\ Get(s.data, "success") # False

\* C24: under any interleaving of the calls a process has in flight, the
\* outbound request of a call depends on its own operation and arguments
\* only and its result on its own upstream response only: a step of one call
\* leaves the data of every other call as it was, a call whose fetch has
\* settled can resume whatever the others are doing, the request goes to the
\* path of the call's own operation, a success is answered with the call's
\* own upstream body and anything else with a failure, and two calls with
\* the same operation, arguments and upstream response have the same request
\* and the same result.
C24_CallsIndependent ==
  /\ [][\A i \in DOMAIN inflight :
          inflight'[i] # inflight[i] =>
            \A j \in DOMAIN inflight \ {i} : inflight'[j] = inflight[j]]_vars
  /\ [](\A i \in DOMAIN inflight :
          LET a == inflight[i] IN
            /\ a.pc = "settled" => ENABLED ResumeIn(i)
            /\ a.outbound # <<>> =>
                 a.outbound[1].url[2] = HandlerOf(a.call.name).path
            /\ (a.pc = "replied" /\ SucceededIn(i)) => a.reply.json = a.settled.data
            /\ (a.pc = "replied" /\ ~SucceededIn(i)) =>
                 Get(a.reply.json, "success") = False
            /\ \A j \in DOMAIN inflight :
                 LET b == inflight[j] IN
                   (a.call = b.call /\ a.pc # "idle" /\ b.pc # "idle") =>
                     /\ (a.pc = "replied" /\ b.pc = "replied"
                           /\ a.outbound = <<>>) => b.outbound = <<>>
                     /\ (a.outbound # <<>> /\ b.outbound # <<>>) => a.outbound = b.outbound
                     /\ (a.pc = "replied" /\ b.pc = "replied" /\ a.settled = b.settled) =>
                          a.reply = b.reply)

\* two calls in flight at once, the one answered with its own success while
\* the other, settled with a failure, has not resumed yet
C24_Witness ==
  /\ Len(inflight) >= 2
  /\ inflight[1].pc = "settled"
  /\ inflight[1].settled.status = 429
  /\ inflight[2].pc = "replied"
  /\ SucceededIn(2)
  /\ inflight[2].reply.json = inflight[2].settled.data
  /\ inflight[1].call # inflight[2].call

====
